---- MODULE Spec2Model ----
(***************************************************************************)
(* A model of the file-analyser utilities: the CSV analyser                *)
(* (src/csv/csv_analyser.py) and the Parquet analyser                      *)
(* (src/parquet/parquet_analyser.py).                                      *)
(*                                                                         *)
(* Every invocation of the tools opens its file(s), runs one operation and *)
(* prints.  The inputs (files, tables, arguments) are drawn in the initial *)
(* states; one action per operation, or per loop iteration for the         *)
(* row-by-row scans, computes what the code computes.                      *)
(*                                                                         *)
(* Values.  A cell is Null (Python None / NaN) or Val(n).  In a column of  *)
(* a numeric type Val(n) is the number n; in a column of type "string" it  *)
(* is the n-th string.  A text line is a record: ok = FALSE when the       *)
(* reader raises on it, and text is the text of the line.                  *)
(***************************************************************************)
EXTENDS Integers, Sequences, FiniteSets, TLC

VARIABLES
    pc,                     \* position of the running operation
    args,                   \* the arguments of the invocation
    lines,                  \* the text (CSV) file: its lines, in file order
    line_number,            \* analyse_csv: enumerate(reader, start=1)
    field_count_summary,    \* analyse_csv: defaultdict(int)
    expected_field_count,   \* analyse_csv: None or the first field count
    malformed_lines,        \* analyse_csv: list of line numbers
    notices,                \* analyse_csv: "Skipping malformed line" prints
    table,                  \* the typed (Parquet) table of the first file
    table2,                 \* compare: the table of the second file
    lines2,                 \* compare: the lines of the second text file
    row_idx,                \* typed scans: rows processed so far
    non_null_field_count_summary,   \* analyse_parquet: defaultdict(int)
    sparse_rows,            \* analyse_parquet: list of row numbers
    column_null_counts,     \* analyse_parquet: column name -> nulls seen
    malformed_rows,         \* analyse_parquet: list of row numbers
    malformed_data,         \* analyse_parquet: list of row dicts
    duplicate_keys,         \* analyse_parquet: defaultdict(list), in
                            \* insertion order
    progress,               \* typed scans: the "Progress: n/N" prints
    matches,                \* find (Parquet): the rows found so far
    report,                 \* what the operation printed at its end
    prev                    \* the arguments and print of the invocation
                            \* before this one

csvScanVars == <<line_number, field_count_summary, expected_field_count,
                 malformed_lines, notices>>

pqScanVars == <<row_idx, non_null_field_count_summary, sparse_rows,
                column_null_counts, malformed_rows, malformed_data,
                duplicate_keys, progress, matches>>

files == <<lines, table, table2, lines2>>

vars == <<pc, args, files, csvScanVars, pqScanVars, report, prev>>

---------------------------------------------------------------------------
(* Bounds of the model.                                                    *)

MaxLines == 4
MaxFields == 2
MaxRows == 4
MaxContext == 2
MaxCmpRows == 2
MaxScanRows == 301

---------------------------------------------------------------------------
(* Values and small helpers.                                               *)

Null == <<>>
Val(n) == <<n>>

NoArgs == [op |-> "none"]
NoReport == [kind |-> "none"]
NoPrev == [args |-> NoArgs, report |-> NoReport]

Max(a, b) == IF a >= b THEN a ELSE b
Min(a, b) == IF a <= b THEN a ELSE b

SeqsUpTo(S, n) == UNION {[1..k -> S] : k \in 0..n}

RECURSIVE SumOver(_, _)
SumOver(f, S) ==
    IF S = {} THEN 0
    ELSE LET x == CHOOSE y \in S : TRUE IN f[x] + SumOver(f, S \ {x})

\* sorted(d.items()) for a mapping with integer keys
RECURSIVE SortedItems(_, _)
SortedItems(f, S) ==
    IF S = {} THEN <<>>
    ELSE LET k == CHOOSE x \in S : \A y \in S : x <= y
         IN <<[key |-> k, count |-> f[k]]>> \o SortedItems(f, S \ {k})

---------------------------------------------------------------------------
(* Text files.  The text of a line (without its line end) is a sequence of *)
(* tokens: "," is the delimiter, any other token is one character run of a *)
(* field.                                                                  *)

\* ','.join(parts): the texts of the parts with "," between them
RECURSIVE Join(_)
Join(parts) ==
    IF parts = <<>> THEN <<>>
    ELSE IF Len(parts) = 1 THEN parts[1]
    ELSE parts[1] \o <<",">> \o Join(Tail(parts))

\* text.split(','): the runs of tokens between the delimiters
RECURSIVE SplitOnComma(_, _)
SplitOnComma(text, current) ==
    IF text = <<>> THEN <<current>>
    ELSE IF Head(text) = ","
         THEN <<current>> \o SplitOnComma(Tail(text), <<>>)
         ELSE SplitOnComma(Tail(text), Append(current, Head(text)))

\* the row csv.reader yields for a line: no field for an empty line
CsvSplit(text) == IF text = <<>> THEN <<>> ELSE SplitOnComma(text, <<>>)

\* a line the reader parses, and a line on which it raises (csv.Error,
\* UnicodeDecodeError)
Line(text) == [ok |-> TRUE, text |-> text]
Unparseable == [ok |-> FALSE, text |-> <<"?">>]

\* a line of n fields
Fields(n) == Line(Join([i \in 1..n |-> <<"1">>]))

AnalyseRecords == {Fields(n) : n \in 0..MaxFields} \cup {Unparseable}

---------------------------------------------------------------------------
(* Typed tables (pyarrow tables).                                          *)

\* the column names a schema is built from, in schema order
ColumnNames == <<"a", "b">>

CellValues == {Null, Val(1)}

Field(name, type) == [name |-> name, type |-> type]

NoTable == [schema |-> <<>>, rows |-> <<>>]

num_columns(t) == Len(t.schema)
num_rows(t) == Len(t.rows)
schema_names(t) == [i \in 1..Len(t.schema) |-> t.schema[i].name]

\* tables of 64-bit integer columns named by a prefix of ColumnNames
TablesOf(widths, cells) ==
    UNION {
        {[schema |-> [i \in 1..w |-> Field(ColumnNames[i], "int64")],
          rows |-> r] : r \in SeqsUpTo([1..w -> cells], MaxRows)}
        : w \in widths}

IntTables == TablesOf(1..Len(ColumnNames), CellValues)

ParquetScanIdle ==
    /\ row_idx = 0
    /\ non_null_field_count_summary = <<>>
    /\ sparse_rows = <<>>
    /\ column_null_counts = <<>>
    /\ malformed_rows = <<>>
    /\ malformed_data = <<>>
    /\ duplicate_keys = <<>>
    /\ progress = <<>>
    /\ matches = <<>>

---------------------------------------------------------------------------
(* analyse_csv (csv_analyser.py 123-162).                                  *)

CsvScanIdle ==
    /\ line_number = 0
    /\ field_count_summary = <<>>
    /\ expected_field_count = Null
    /\ malformed_lines = <<>>
    /\ notices = <<>>

InitAnalyseCsv ==
    /\ lines \in SeqsUpTo(AnalyseRecords, MaxLines)
    /\ args \in [op : {"analyse_csv"}, skip_header : BOOLEAN]
    /\ pc = "analyse_csv"
    /\ CsvScanIdle
    /\ table = NoTable
    /\ table2 = NoTable
    /\ lines2 = <<>>
    /\ ParquetScanIdle
    /\ report = NoReport
    /\ prev = NoPrev

\* a slip: "= 1" written for "+= 1"
Increment_Overwrite(summary, k) ==
    [x \in (DOMAIN summary) \cup {k} |-> IF x = k THEN 1 ELSE summary[x]]

\* field_count_summary[field_count] += 1 on a defaultdict(int)
Increment(summary, k) ==
    [x \in (DOMAIN summary) \cup {k} |->
        IF x = k THEN (IF k \in DOMAIN summary THEN summary[k] ELSE 0) + 1
        ELSE summary[x]]

\* the "except Exception" arm of the loop body: len(row) and the counting
\* cannot raise, so the arm is never taken for a row the reader produced
BodyRaises(row) == FALSE

\* one iteration of "for line_number, row in enumerate(reader, start=1)"
AnalyseCsvStep ==
    /\ pc = "analyse_csv"
    /\ line_number < Len(lines)
    /\ LET n == line_number + 1
           row == CsvSplit(lines[n].text)
       IN  IF ~lines[n].ok
           THEN \* next(reader) raises outside the try: the call is left
                /\ pc' = "raised"
                /\ UNCHANGED <<line_number, field_count_summary,
                               expected_field_count, malformed_lines, notices>>
           ELSE /\ pc' = pc
                /\ line_number' = n
                /\ IF args.skip_header /\ n = 1
                   THEN UNCHANGED <<field_count_summary, expected_field_count,
                                    malformed_lines, notices>>
                   ELSE IF BodyRaises(row)
                   THEN /\ notices' = Append(notices, n)
                        /\ UNCHANGED <<field_count_summary,
                                       expected_field_count, malformed_lines>>
                   ELSE LET field_count == Len(row)
                        IN  /\ field_count_summary' =
                                   Increment(field_count_summary, field_count)
                            /\ expected_field_count' =
                                   IF expected_field_count = Null
                                   THEN Val(field_count)
                                   ELSE expected_field_count
                            /\ malformed_lines' =
                                   IF /\ expected_field_count # Null
                                      /\ Val(field_count) # expected_field_count
                                   THEN Append(malformed_lines, n)
                                   ELSE malformed_lines
                            /\ notices' = notices
    /\ UNCHANGED <<args, files, pqScanVars, report, prev>>

\* after the loop: the summary sorted by field count, then the line list
AnalyseCsvReport ==
    /\ pc = "analyse_csv"
    /\ line_number = Len(lines)
    /\ report' = [kind |-> "analyse_csv",
                  summary |-> SortedItems(field_count_summary,
                                          DOMAIN field_count_summary),
                  malformed |-> malformed_lines]
    /\ pc' = "done"
    /\ UNCHANGED <<args, files, csvScanVars, pqScanVars, prev>>

NextAnalyseCsv == AnalyseCsvStep \/ AnalyseCsvReport

SpecAnalyseCsv == InitAnalyseCsv /\ [][NextAnalyseCsv]_vars

---------------------------------------------------------------------------
(* Claims about analyse_csv.                                               *)

\* the ascending sequence of the members of a set of integers
RECURSIVE Ascending(_)
Ascending(S) ==
    IF S = {} THEN <<>>
    ELSE LET k == CHOOSE x \in S : \A y \in S : x <= y
         IN <<k>> \o Ascending(S \ {k})

SeqRange(s) == {s[i] : i \in 1..Len(s)}

\* the line numbers the loop body is run for
ProcessedLines ==
    {n \in 1..Len(lines) : ~(args.skip_header /\ n = 1)}

FirstProcessed == CHOOSE n \in ProcessedLines : \A m \in ProcessedLines : n <= m

FieldCountOf(n) == Len(CsvSplit(lines[n].text))

\* C3: when a row of a text source cannot be parsed, analyse does not
\* abort: the row's number is recorded as malformed, a notice is emitted,
\* and the scan reaches the end of the file and produces a report.
C3_UnparseableRowTolerated ==
    /\ pc # "raised"
    /\ pc = "done" =>
          \A n \in ProcessedLines :
              ~lines[n].ok =>
                  /\ n \in SeqRange(report.malformed)
                  /\ n \in SeqRange(notices)

\* C8: the expected field count is the field count of the first processed
\* row; the malformed list is exactly the ascending list of the later rows
\* whose field count differs; the histogram counts every processed row once
\* under its own field count (sorted by field count in the report).
C8_FieldCountReport ==
    pc = "done" =>
        /\ expected_field_count =
               IF ProcessedLines = {} THEN Null
               ELSE Val(FieldCountOf(FirstProcessed))
        /\ report.malformed =
               Ascending({n \in ProcessedLines :
                             /\ n > FirstProcessed
                             /\ FieldCountOf(n) # FieldCountOf(FirstProcessed)})
        /\ DOMAIN field_count_summary = {FieldCountOf(n) : n \in ProcessedLines}
        /\ \A k \in DOMAIN field_count_summary :
               field_count_summary[k] =
                   Cardinality({n \in ProcessedLines : FieldCountOf(n) = k})
        /\ SumOver(field_count_summary, DOMAIN field_count_summary) =
               Cardinality(ProcessedLines)
        /\ Len(report.summary) = Cardinality(DOMAIN field_count_summary)
        /\ \A i \in 1..Len(report.summary) :
               /\ report.summary[i].count = field_count_summary[report.summary[i].key]
               /\ \A j \in 1..Len(report.summary) :
                      i < j => report.summary[i].key < report.summary[j].key

\* a header is skipped, the first data row has two fields and a later row
\* has one: that row is reported and the histogram has both entries
C8_Witness ==
    /\ pc = "done"
    /\ args.skip_header
    /\ Len(lines) >= 3
    /\ FieldCountOf(2) = 2
    /\ report.malformed = <<3>>
    /\ Len(report.summary) = 2

---------------------------------------------------------------------------
(* analyse_parquet (parquet_analyser.py 50-140).                           *)

\* the values of --check-duplicates: absent, or an integer
CheckDuplicates == {Null} \cup {Val(k) : k \in 0..(Len(ColumnNames) + 1)}

InitAnalyseParquet ==
    /\ table \in IntTables
    /\ args \in [op : {"analyse_parquet"},
                 print_malformed_rows : BOOLEAN,
                 print_malformed_data : BOOLEAN,
                 check_duplicates : CheckDuplicates]
    /\ pc = "analyse_parquet"
    /\ ParquetScanIdle
    /\ lines = <<>>
    /\ table2 = NoTable
    /\ lines2 = <<>>
    /\ CsvScanIdle
    /\ report = NoReport
    /\ prev = NoPrev

\* row[col][0] for the col-th name of the schema
CellOf(t, r, i) == t.rows[r][i]

\* sum(1 for col in schema.names if row[col][0] is not None)
NonNullFields(t, r) ==
    Cardinality({i \in 1..num_columns(t) : CellOf(t, r, i) # Null})

\* column_null_counts after the row: one more for every null column
CountNulls(counts, t, r) ==
    [i \in 1..num_columns(t) |->
        (IF i \in DOMAIN counts THEN counts[i] ELSE 0)
        + (IF CellOf(t, r, i) = Null THEN 1 ELSE 0)]

\* a slip: the key is the first column alone, whatever was asked
DuplicateKey_FirstOnly(t, r, check_duplicates) ==
    [i \in 1..Min(1, num_columns(t)) |-> CellOf(t, r, i)]

\* tuple(row[schema.names[i]][0] for i in range(min(check_duplicates, num_columns)))
DuplicateKey(t, r, check_duplicates) ==
    [i \in 1..Min(check_duplicates, num_columns(t)) |-> CellOf(t, r, i)]

\* duplicate_keys[key].append(row_number) on a defaultdict(list): a new key
\* goes to the end of the mapping, a known key keeps its place
AppendToKey(dups, key, row_number) ==
    IF \E j \in 1..Len(dups) : dups[j].key = key
    THEN [j \in 1..Len(dups) |->
            IF dups[j].key = key
            THEN [key |-> key, rows |-> Append(dups[j].rows, row_number)]
            ELSE dups[j]]
    ELSE Append(dups, [key |-> key, rows |-> <<row_number>>])

\* {k: v for k, v in duplicate_keys.items() if len(v) > 1}
RECURSIVE Duplicates(_)
Duplicates(dups) ==
    IF dups = <<>> THEN <<>>
    ELSE (IF Len(Head(dups).rows) > 1 THEN <<Head(dups)>> ELSE <<>>)
         \o Duplicates(Tail(dups))

\* max(1, num_rows // 100)
progress_interval(n) == Max(1, n \div 100)

\* a slip: no print for the final row
ProgressAfter_NoFinal(done, n) ==
    IF done % progress_interval(n) = 0
    THEN Append(progress, done) ELSE progress

\* the progress print at the end of an iteration, if any
ProgressAfter(done, n) ==
    IF done % progress_interval(n) = 0 \/ done = n
    THEN Append(progress, done) ELSE progress

DuplicatesAsked == args.check_duplicates # Null /\ args.check_duplicates[1] > 0

\* one iteration of "for row_idx in range(num_rows)"
AnalyseParquetStep ==
    /\ pc = "analyse_parquet"
    /\ row_idx < num_rows(table)
    /\ LET r == row_idx + 1
           non_null_fields == NonNullFields(table, r)
       IN  /\ row_idx' = r
           /\ column_null_counts' = CountNulls(column_null_counts, table, r)
           /\ non_null_field_count_summary' =
                  Increment(non_null_field_count_summary, non_null_fields)
           /\ malformed_rows' =
                  IF non_null_fields # num_columns(table)
                  THEN Append(malformed_rows, r) ELSE malformed_rows
           /\ malformed_data' =
                  IF non_null_fields # num_columns(table)
                     /\ args.print_malformed_data
                  THEN Append(malformed_data, table.rows[r])
                  ELSE malformed_data
           /\ sparse_rows' =
                  IF 2 * non_null_fields < num_columns(table)
                  THEN Append(sparse_rows, r) ELSE sparse_rows
           /\ duplicate_keys' =
                  IF DuplicatesAsked
                  THEN AppendToKey(duplicate_keys,
                                   DuplicateKey(table, r, args.check_duplicates[1]),
                                   r)
                  ELSE duplicate_keys
           /\ progress' = ProgressAfter(r, num_rows(table))
    /\ UNCHANGED <<matches, pc, args, files, csvScanVars, report, prev>>

\* after the loop: the summaries, the null percentages, the duplicates.
\* nulls / num_rows raises ZeroDivisionError for a table with no rows.
AnalyseParquetReport ==
    /\ pc = "analyse_parquet"
    /\ row_idx = num_rows(table)
    /\ IF num_rows(table) = 0 /\ num_columns(table) > 0
       THEN /\ pc' = "raised"
            /\ report' = [kind |-> "ZeroDivisionError"]
       ELSE /\ pc' = "done"
            /\ report' =
                 [kind |-> "analyse_parquet",
                  summary |-> SortedItems(non_null_field_count_summary,
                                          DOMAIN non_null_field_count_summary),
                  sparse |-> sparse_rows,
                  null_fraction |->
                      [i \in 1..num_columns(table) |->
                          [nulls |-> IF i \in DOMAIN column_null_counts
                                     THEN column_null_counts[i] ELSE 0,
                           rows |-> num_rows(table)]],
                  malformed |-> IF args.print_malformed_rows
                                THEN malformed_rows ELSE <<>>,
                  malformed_data |-> malformed_data,
                  duplicates |-> IF DuplicatesAsked
                                 THEN Duplicates(duplicate_keys) ELSE <<>>]
    /\ UNCHANGED <<args, files, csvScanVars, pqScanVars, prev>>

NextAnalyseParquet == AnalyseParquetStep \/ AnalyseParquetReport

SpecAnalyseParquet == InitAnalyseParquet /\ [][NextAnalyseParquet]_vars

---------------------------------------------------------------------------
(* Claims about duplicate detection.                                       *)

KeyWidth == Min(args.check_duplicates[1], num_columns(table))

\* two rows collide iff their first KeyWidth values are equal, null = null
SameKey(r1, r2) ==
    \A i \in 1..KeyWidth : table.rows[r1][i] = table.rows[r2][i]

GroupOf(r) == {q \in 1..num_rows(table) : SameKey(r, q)}

\* the first rows of the keys held by two or more rows, ascending
FirstRowsOfDuplicates ==
    Ascending({r \in 1..num_rows(table) :
                  /\ Cardinality(GroupOf(r)) >= 2
                  /\ \A q \in GroupOf(r) : r <= q})

\* C7: duplicate detection groups the rows by the tuple of their first
\* min(key_width, schema_width) values and reports exactly the groups of two
\* or more rows, each with all its row numbers ascending, in the order the
\* keys were first met.
C7_DuplicateGroups ==
    (pc = "done" /\ args.op = "analyse_parquet" /\ DuplicatesAsked) =>
        /\ Len(report.duplicates) = Len(FirstRowsOfDuplicates)
        /\ \A j \in 1..Len(report.duplicates) :
              LET r == FirstRowsOfDuplicates[j]
              IN  /\ report.duplicates[j].rows = Ascending(GroupOf(r))
                  /\ Len(report.duplicates[j].key) = KeyWidth
                  /\ \A i \in 1..KeyWidth :
                        report.duplicates[j].key[i] = table.rows[r][i]

\* a key width above the schema width, two groups of two rows interleaved,
\* the group met first holding the non-null key
C7_Witness ==
    /\ pc = "done"
    /\ args.op = "analyse_parquet"
    /\ DuplicatesAsked
    /\ args.check_duplicates[1] > num_columns(table)
    /\ num_columns(table) = 2
    /\ Len(report.duplicates) = 2
    /\ report.duplicates[1].rows = <<1, 3>>
    /\ report.duplicates[2].rows = <<2, 4>>
    /\ report.duplicates[1].key = <<Val(1), Null>>
    /\ report.duplicates[2].key = <<Null, Null>>

---------------------------------------------------------------------------
(* CSV files as pandas reads them (pd.read_csv, csv_analyser.py 28).       *)

\* the text of a cell in a CSV file: nothing for a null, else the digits
FieldText(cell) == IF cell = Null THEN <<>> ELSE <<ToString(cell[1])>>

\* the value pandas gives a field: NaN for an empty field, else the number
ParseField(text) ==
    IF text = <<>> THEN Null
    ELSE Val(CHOOSE n \in 0..9 : ToString(n) = text[1])

\* the CSV file holding a table: the header line, then one line per row
CsvText(t) ==
    <<Line(Join([i \in 1..num_columns(t) |-> <<t.schema[i].name>>]))>>
    \o [r \in 1..num_rows(t) |->
           Line(Join([i \in 1..num_columns(t) |-> FieldText(t.rows[r][i])]))]

RECURSIVE NonBlank(_)
NonBlank(ls) ==
    IF ls = <<>> THEN <<>>
    ELSE (IF Head(ls).text = <<>> THEN <<>> ELSE <<Head(ls)>>)
         \o NonBlank(Tail(ls))

\* pd.read_csv: the first line is the header, blank lines are skipped
\* (skip_blank_lines), every other line is one row of the frame
ReadCsv(ls) ==
    LET body == NonBlank(Tail(ls))
        header == CsvSplit(ls[1].text)
    IN  [columns |-> [i \in 1..Len(header) |-> header[i][1]],
         rows |-> [r \in 1..Len(body) |->
                      LET f == CsvSplit(body[r].text)
                      IN [i \in 1..Len(f) |-> ParseField(f[i])]]]

\* line.rstrip() of the line with 0-based index idx, if the file has it
RawLine(ls, idx) == ls[idx + 1].text

---------------------------------------------------------------------------
(* show_records (parquet_analyser.py 172-188, csv_analyser.py 77-98).      *)

\* one printed "Row N: ..." line: the parsed cells, or the raw text
Entry(n, cells, text, hl) ==
    [row |-> n, cells |-> cells, text |-> text, highlighted |-> hl]

\* a slip: the tail starts one row early
ShowRecordsParquet_TailEarly(t, count, tail) ==
    LET n == num_rows(t)
        c == IF count > n THEN n ELSE count
        start == IF tail THEN Max(0, n - c - 1) ELSE 0
    IN  [kind |-> "show_records", count |-> c,
         entries |-> [i \in 1..c |->
                         Entry(start + i, t.rows[start + i], <<>>, FALSE)]]

ShowRecordsParquet(t, count, tail) ==
    LET n == num_rows(t)
        c == IF count > n THEN n ELSE count
        start == IF tail THEN n - c ELSE 0
        end == IF tail THEN n ELSE c
    IN  [kind |-> "show_records", count |-> c,
         entries |-> [i \in 1..(end - start) |->
                         Entry(start + i, t.rows[start + i], <<>>, FALSE)]]

ShowRecordsCsv(ls, count, tail, raw) ==
    LET df == ReadCsv(ls)
        n == Len(df.rows)
        c == IF count > n THEN n ELSE count
        start == IF tail THEN n - c ELSE 0
        \* df.tail(c) / df.head(c): the rows at positions start .. start+c-1
        subset == SubSeq(df.rows, start + 1, start + c)
    IN  [kind |-> "show_records", count |-> c,
         entries |-> [i \in 1..Len(subset) |->
                         IF raw
                         THEN Entry(start + i, <<>>, RawLine(ls, start + i - 1),
                                    FALSE)
                         ELSE Entry(start + i, subset[i], <<>>, FALSE)]]

Counts == 0..(MaxRows + 1)

ShowRecords ==
    /\ pc = "main"
    /\ \E count \in Counts, tail \in BOOLEAN, raw \in BOOLEAN,
          tool \in {"csv", "parquet"} :
          /\ tool = "parquet" => ~raw
          /\ args' = [op |-> "show_records", tool |-> tool, count |-> count,
                      tail |-> tail, raw |-> raw]
          /\ report' = IF tool = "parquet"
                       THEN ShowRecordsParquet(table, count, tail)
                       ELSE ShowRecordsCsv(lines, count, tail, raw)
    /\ pc' = "done"
    /\ UNCHANGED <<files, csvScanVars, pqScanVars, prev>>

\* the process has ended; the tool is started once more on the same file
\* (a session is bounded to two invocations)
NextInvocation ==
    /\ pc = "done"
    /\ prev = NoPrev
    /\ prev' = [args |-> args, report |-> report]
    /\ pc' = "main"
    /\ UNCHANGED <<args, report, files, csvScanVars, pqScanVars>>

WindowCells == {Val(1), Val(2)}

InitWindow ==
    /\ table \in TablesOf({1}, WindowCells)
    /\ lines = CsvText(table)
    /\ table2 = NoTable
    /\ lines2 = <<>>
    /\ pc = "main"
    /\ args = NoArgs
    /\ report = NoReport
    /\ prev = NoPrev
    /\ CsvScanIdle
    /\ ParquetScanIdle

NextWindow == ShowRecords \/ NextInvocation

SpecWindow == InitWindow /\ [][NextWindow]_vars

---------------------------------------------------------------------------
(* Claims about the windowed view.                                         *)

\* the rows of the source a tool shows, in row order
SourceRows(tool) ==
    IF tool = "parquet" THEN table.rows ELSE ReadCsv(lines).rows

\* the printed entries are the rows first..last, numbered by their 1-based
\* position; a parsed entry carries the cells of the row it is numbered as
ShowsRows(a, rep, first, last) ==
    /\ Len(rep.entries) = Max(0, last - first + 1)
    /\ \A i \in 1..Len(rep.entries) :
          /\ rep.entries[i].row = first + i - 1
          /\ ~a.raw => rep.entries[i].cells = SourceRows(a.tool)[first + i - 1]

HeadOk(a, rep) ==
    LET rc == Len(SourceRows(a.tool))
    IN  ShowsRows(a, rep, 1, Min(a.count, rc))

TailOk(a, rep) ==
    LET rc == Len(SourceRows(a.tool))
    IN  ShowsRows(a, rep, rc - Min(a.count, rc) + 1, rc)

\* C5: head(n) shows rows 1..min(n, row_count) and tail(n) the last
\* min(n, row_count) rows, under their 1-based row numbers; for a source
\* with row_count >= 1 and 0 <= n <= row_count, head(n) followed by
\* tail(row_count - n) shows rows 1..row_count, each exactly once.
\* (The text a raw entry carries is the subject of C10.)
C5_HeadTailPartition ==
    /\ (pc = "done" /\ args.op = "show_records") =>
          IF args.tail THEN TailOk(args, report) ELSE HeadOk(args, report)
    /\ ( /\ pc = "done"
         /\ args.op = "show_records"
         /\ prev.args.op = "show_records"
         /\ prev.args.tool = args.tool
         /\ prev.args.raw = args.raw
         /\ ~prev.args.tail
         /\ args.tail
         /\ Len(SourceRows(args.tool)) >= 1
         /\ prev.args.count <= Len(SourceRows(args.tool))
         /\ args.count = Len(SourceRows(args.tool)) - prev.args.count )
       => LET both == prev.report.entries \o report.entries
          IN  ShowsRows(args, [entries |-> both], 1,
                        Len(SourceRows(args.tool)))

\* head(1) then tail(2) of a three-row table: rows 1, then 2 and 3
C5_Witness ==
    /\ pc = "done"
    /\ args.op = "show_records"
    /\ prev.args.op = "show_records"
    /\ args.tool = "parquet"
    /\ prev.args.tool = "parquet"
    /\ ~prev.args.tail
    /\ prev.args.count = 1
    /\ args.tail
    /\ args.count = 2
    /\ num_rows(table) = 3
    /\ table.rows[1] # table.rows[2]
    /\ Len(prev.report.entries) = 1
    /\ Len(report.entries) = 2
    /\ report.entries[1].row = 2

---------------------------------------------------------------------------
(* show_row_with_context (parquet_analyser.py 191-204,                     *)
(* csv_analyser.py 101-120).                                               *)

\* a slip: the window starts at the row itself less the context, one late
ContextWindow_StartLate(n, row_number, context) ==
    LET r == Max(1, Min(row_number, n))
    IN  [row_number |-> r,
         start |-> Max(0, r - context),
         end |-> Min(n, r + context)]

\* the clamped row number and the 0-based half-open window [start, end)
ContextWindow(n, row_number, context) ==
    LET r == Max(1, Min(row_number, n))
    IN  [row_number |-> r,
         start |-> Max(0, r - context - 1),
         end |-> Min(n, r + context)]

ContextParquet(t, row_number, context) ==
    LET w == ContextWindow(num_rows(t), row_number, context)
    IN  [kind |-> "context", first |-> w.start + 1, last |-> w.end,
         row_number |-> w.row_number,
         entries |-> [i \in 1..(w.end - w.start) |->
                         Entry(w.start + i, t.rows[w.start + i], <<>>,
                               w.start + i = w.row_number)]]

ContextCsv(ls, row_number, context, raw) ==
    LET df == ReadCsv(ls)
        w == ContextWindow(Len(df.rows), row_number, context)
        \* df.iloc[start:end]
        subset == SubSeq(df.rows, w.start + 1, w.end)
    IN  [kind |-> "context", first |-> w.start + 1, last |-> w.end,
         row_number |-> w.row_number,
         entries |-> [i \in 1..Len(subset) |->
                         LET idx == w.start + i
                         IN  IF raw
                             THEN Entry(idx, <<>>, RawLine(ls, idx - 1),
                                        idx = w.row_number)
                             ELSE Entry(idx, subset[i], <<>>,
                                        idx = w.row_number)]]

RowNumbers == (0 - 1)..(MaxRows + 1)
Contexts == 0..MaxContext

ShowRowWithContext ==
    /\ pc = "main"
    /\ \E row_number \in RowNumbers, context \in Contexts, raw \in BOOLEAN,
          tool \in {"csv", "parquet"} :
          /\ tool = "parquet" => ~raw
          /\ args' = [op |-> "show_row_with_context", tool |-> tool,
                      row_number |-> row_number, context |-> context,
                      raw |-> raw]
          /\ report' = IF tool = "parquet"
                       THEN ContextParquet(table, row_number, context)
                       ELSE ContextCsv(lines, row_number, context, raw)
    /\ pc' = "done"
    /\ UNCHANGED <<files, csvScanVars, pqScanVars, prev>>

---------------------------------------------------------------------------
(* The --find argument and json.loads.                                     *)

JsonValues == {"1", "null"}
JsonKeys == {"a", "b", "z"}

\* the value of a JSON value token
JsonValue(tok) == IF tok = "null" THEN Null ELSE ParseField(<<tok>>)

Pair(k, v) == [col |-> k, val |-> JsonValue(v)]

\* json.loads: an object of up to two members (a dict, in member order), a
\* scalar, or a failure (json.JSONDecodeError)
JsonLoads(text) ==
    IF Len(text) = 1 /\ text[1] \in JsonValues
        THEN [ok |-> TRUE, dict |-> FALSE, items |-> <<>>,
              scalar |-> JsonValue(text[1])]
    ELSE IF text = <<"{", "}">>
        THEN [ok |-> TRUE, dict |-> TRUE, items |-> <<>>, scalar |-> Null]
    ELSE IF /\ Len(text) = 5
            /\ text[1] = "{" /\ text[2] \in JsonKeys /\ text[3] = ":"
            /\ text[4] \in JsonValues /\ text[5] = "}"
        THEN [ok |-> TRUE, dict |-> TRUE,
              items |-> <<Pair(text[2], text[4])>>, scalar |-> Null]
    ELSE IF /\ Len(text) = 9
            /\ text[1] = "{" /\ text[2] \in JsonKeys /\ text[3] = ":"
            /\ text[4] \in JsonValues /\ text[5] = ","
            /\ text[6] \in JsonKeys /\ text[7] = ":"
            /\ text[8] \in JsonValues /\ text[9] = "}"
            /\ text[2] # text[6]
        THEN [ok |-> TRUE, dict |-> TRUE,
              items |-> <<Pair(text[2], text[4]), Pair(text[6], text[8])>>,
              scalar |-> Null]
    ELSE [ok |-> FALSE, dict |-> FALSE, items |-> <<>>, scalar |-> Null]

\* the --find arguments tried: free text, a JSON scalar, JSON objects over
\* present and absent columns
FindTexts ==
    {<<"x">>, <<"1">>, <<"{", "}">>}
    \cup {<<"{", k, ":", v, "}">> : k \in JsonKeys, v \in JsonValues}
    \cup {<<"{", "a", ":", v, ",", k, ":", w, "}">> :
             k \in {"b", "z"}, v \in JsonValues, w \in JsonValues}

\* str(v) of a JSON value
StrOf(v) == IF v = Null THEN <<"None">> ELSE FieldText(v)

\* "needle in text" for strings
IsSubstring(needle, text) ==
    \E i \in 0..(Len(text) - Len(needle)) :
        SubSeq(text, i + 1, i + Len(needle)) = needle

\* positions of a column name in a list of names (none: the column is absent)
ColumnIndex(names, col) == {i \in 1..Len(names) : names[i] = col}

---------------------------------------------------------------------------
(* find_rows_by_column_values and the --find branch of main                *)
(* (csv_analyser.py 39-74 and 258-264; parquet_analyser.py 143-169 and     *)
(* 352-357).                                                               *)

\* what main hands to find_rows_by_column_values: the loaded JSON value, or
\* the argument string itself
Loaded(parsed) ==
    IF parsed.dict THEN [kind |-> "dict", items |-> parsed.items]
    ELSE [kind |-> "scalar", scalar |-> parsed.scalar]
AsString(text) == [kind |-> "str", text |-> text]

FindReport(mode, error, fallback, scanned, found) ==
    [kind |-> "find", mode |-> mode, error |-> error, fallback |-> fallback,
     scanned |-> scanned, matches |-> found]

\* the search string of the raw branch: the values of a dict joined by
\* commas, else str(column_values)
SearchString(cv) ==
    IF cv.kind = "dict"
    THEN Join([i \in 1..Len(cv.items) |-> StrOf(cv.items[i].val)])
    ELSE IF cv.kind = "scalar" THEN StrOf(cv.scalar)
    ELSE cv.text

\* the raw branch: every line of the file, numbered from 1, that holds the
\* search string
RECURSIVE RawMatches(_, _, _)
RawMatches(ls, search_str, idx) ==
    IF idx > Len(ls) THEN <<>>
    ELSE (IF IsSubstring(search_str, ls[idx].text)
          THEN <<Entry(idx, <<>>, ls[idx].text, FALSE)>> ELSE <<>>)
         \o RawMatches(ls, search_str, idx + 1)

FindCsvRaw(ls, cv, fallback) ==
    FindReport("raw", FALSE, fallback, Len(ls),
               RawMatches(ls, SearchString(cv), 1))

\* the structured branch raises AttributeError for a value without keys()
\* and KeyError for a column the frame does not have
StructuredRaises(df, cv) ==
    \/ cv.kind # "dict"
    \/ \E i \in 1..Len(cv.items) :
          ColumnIndex(df.columns, cv.items[i].col) = {}

\* (df[columns] == pd.Series(column_values)).all(axis=1): NaN equals
\* nothing, a None in the series equals nothing
RowEqualsCsv(df, r, items) ==
    \A i \in 1..Len(items) :
        \E c \in ColumnIndex(df.columns, items[i].col) :
            /\ items[i].val # Null
            /\ df.rows[r][c] = items[i].val

RECURSIVE StructuredMatches(_, _, _)
StructuredMatches(df, items, r) ==
    IF r > Len(df.rows) THEN <<>>
    ELSE (IF RowEqualsCsv(df, r, items)
          THEN <<Entry(r, df.rows[r], <<>>, FALSE)>> ELSE <<>>)
         \o StructuredMatches(df, items, r + 1)

FindCsvStructured(ls, cv) ==
    LET df == ReadCsv(ls)
    IN  FindReport("structured", FALSE, FALSE, Len(df.rows),
                   StructuredMatches(df, cv.items, 1))

\* main of the CSV tool: json.loads and the search inside one try; any
\* exception of either runs the raw search on the argument string
MainFindCsv ==
    /\ pc = "main"
    /\ \E text \in FindTexts, raw \in BOOLEAN :
          LET parsed == JsonLoads(text)
          IN  /\ args' = [op |-> "find", tool |-> "csv", text |-> text,
                          raw |-> raw]
              /\ report' =
                   IF ~parsed.ok
                   THEN FindCsvRaw(lines, AsString(text), TRUE)
                   ELSE IF raw
                   THEN FindCsvRaw(lines, Loaded(parsed), FALSE)
                   ELSE IF StructuredRaises(ReadCsv(lines), Loaded(parsed))
                   THEN FindCsvRaw(lines, AsString(text), TRUE)
                   ELSE FindCsvStructured(lines, Loaded(parsed))
    /\ pc' = "done"
    /\ UNCHANGED <<files, csvScanVars, pqScanVars, prev>>

\* main of the Parquet tool: a failure of json.loads, or of the search
\* (AttributeError on a value without keys(), raised before the row loop),
\* is printed as an error
MainFindParquet ==
    /\ pc = "main"
    /\ \E text \in FindTexts :
          LET parsed == JsonLoads(text)
          IN  /\ args' = [op |-> "find", tool |-> "parquet", text |-> text,
                          raw |-> FALSE]
              /\ IF parsed.ok /\ parsed.dict
                 THEN /\ pc' = "find_parquet"
                      /\ report' = report
                 ELSE /\ pc' = "done"
                      /\ report' = FindReport("none", TRUE, FALSE, 0, <<>>)
    /\ UNCHANGED <<files, csvScanVars, pqScanVars, prev>>

\* row.get(col, [None])[0]
RowGet(t, r, col) ==
    IF ColumnIndex(schema_names(t), col) = {} THEN Null
    ELSE CellOf(t, r, CHOOSE i \in ColumnIndex(schema_names(t), col) : TRUE)

\* all(row.get(col, [None])[0] == column_values[col] for col in columns)
RowEqualsParquet(t, r, items) ==
    \A i \in 1..Len(items) : RowGet(t, r, items[i].col) = items[i].val

\* one iteration of "for row_idx in range(num_rows)"
FindParquetStep ==
    /\ pc = "find_parquet"
    /\ row_idx < num_rows(table)
    /\ LET r == row_idx + 1
       IN  /\ row_idx' = r
           /\ matches' =
                  IF RowEqualsParquet(table, r, JsonLoads(args.text).items)
                  THEN Append(matches, Entry(r, table.rows[r], <<>>, FALSE))
                  ELSE matches
           /\ progress' = ProgressAfter(r, num_rows(table))
    /\ UNCHANGED <<pc, args, files, csvScanVars, report, prev,
                   non_null_field_count_summary, sparse_rows,
                   column_null_counts, malformed_rows, malformed_data,
                   duplicate_keys>>

FindParquetEnd ==
    /\ pc = "find_parquet"
    /\ row_idx = num_rows(table)
    /\ report' = FindReport("structured", FALSE, FALSE, row_idx, matches)
    /\ pc' = "done"
    /\ UNCHANGED <<args, files, csvScanVars, pqScanVars, prev>>

---------------------------------------------------------------------------
(* The row locator: one invocation of a view or of find.                   *)

InitLocate ==
    /\ table \in IntTables
    /\ lines = CsvText(table)
    /\ table2 = NoTable
    /\ lines2 = <<>>
    /\ pc = "main"
    /\ args = NoArgs
    /\ report = NoReport
    /\ prev = NoPrev
    /\ CsvScanIdle
    /\ ParquetScanIdle

NextLocate ==
    \/ ShowRecords
    \/ ShowRowWithContext
    \/ MainFindCsv
    \/ MainFindParquet
    \/ FindParquetStep
    \/ FindParquetEnd

SpecLocate == InitLocate /\ [][NextLocate]_vars

---------------------------------------------------------------------------
(* Claims about the row locator.                                           *)

RowCount(tool) == Len(SourceRows(tool))

\* the row number after clamping into [1, row_count]
Clamped(a) == Max(1, Min(a.row_number, RowCount(a.tool)))

ContextShown == pc = "done" /\ args.op = "show_row_with_context"

\* the window is rows max(1, r-k)..min(row_count, r+k), only row r is
\* highlighted, at most 2k+1 rows, fewer only at a file boundary
ContextWindowOk ==
    LET rc == RowCount(args.tool)
        r == Clamped(args)
        k == args.context
    IN  /\ ShowsRows(args, report, Max(1, r - k), Min(rc, r + k))
        /\ \A i \in 1..Len(report.entries) :
              report.entries[i].highlighted <=> report.entries[i].row = r
        /\ Len(report.entries) <= 2 * k + 1
        /\ Len(report.entries) < 2 * k + 1 => (r - k < 1 \/ r + k > rc)

ContextIncludesRow ==
    \E i \in 1..Len(report.entries) :
        /\ report.entries[i].row = Clamped(args)
        /\ report.entries[i].highlighted

\* C6 as stated: for every source the context view returns the window
\* around the clamped row and always includes that row.
C6_ContextAnySource ==
    ContextShown => (ContextWindowOk /\ ContextIncludesRow)

\* C6 amended: the window is as stated for every source; it includes the
\* clamped row whenever the source has at least one row.
C6_ContextWindow ==
    ContextShown =>
        /\ ContextWindowOk
        /\ RowCount(args.tool) >= 1 => ContextIncludesRow

\* row MaxRows+1 of a MaxRows-row table is asked with context 2: the row is
\* clamped to the last one and the window is cut by the end of the file
C6_Witness ==
    /\ ContextShown
    /\ args.tool = "parquet"
    /\ num_rows(table) = MaxRows
    /\ args.row_number = MaxRows + 1
    /\ args.context = 2
    /\ Len(report.entries) = 3
    /\ report.entries[3].row = MaxRows
    /\ report.entries[3].highlighted
    /\ ~report.entries[2].highlighted

\* the rows a predicate selects: every named column exists in the row and
\* its value equals the predicate's value
Selected(t, items) ==
    {r \in 1..num_rows(t) :
        \A i \in 1..Len(items) :
            \E c \in ColumnIndex(schema_names(t), items[i].col) :
                t.rows[r][c] = items[i].val}

\* C2: find with a structured predicate returns exactly the selected rows
\* in ascending row order; a predicate naming a column absent from the
\* source matches no row, whatever value it gives for that column.
C2_FindExactMatches ==
    (pc = "done" /\ args.op = "find" /\ args.tool = "parquet"
        /\ report.mode = "structured") =>
        LET items == JsonLoads(args.text).items
            want == Ascending(Selected(table, items))
        IN  /\ Len(report.matches) = Len(want)
            /\ \A j \in 1..Len(want) :
                  /\ report.matches[j].row = want[j]
                  /\ report.matches[j].cells = table.rows[want[j]]

\* the predicate is no column-to-value mapping, or the structured search
\* it asks for fails
IllFormed ==
    /\ ~args.raw
    /\ \/ ~JsonLoads(args.text).ok
       \/ ~JsonLoads(args.text).dict
       \/ /\ args.tool = "csv"
          /\ StructuredRaises(ReadCsv(lines), Loaded(JsonLoads(args.text)))

\* C4: an ill-formed find predicate is reported to the caller before any
\* row is scanned, and a raw-substring scan runs only when the caller asked
\* for raw mode.
C4_NoImplicitRawSearch ==
    (pc = "done" /\ args.op = "find") =>
        /\ report.mode = "raw" => args.raw
        /\ IllFormed => (report.error /\ report.scanned = 0)

\* the data rows of the text file in the order pandas numbers them
DataLines == NonBlank(Tail(lines))

\* C10: in raw mode head, tail and context print under 'Row N' the text of
\* the data row the parsed view prints under 'Row N', raw tail ends with
\* the last data line, and raw find reports for a line the number under
\* which the other views show that row.
C10_RawRowNumbers ==
    /\ ( /\ pc = "done"
         /\ args.op \in {"show_records", "show_row_with_context"}
         /\ args.tool = "csv"
         /\ args.raw )
       => /\ \A i \in 1..Len(report.entries) :
                report.entries[i].text = DataLines[report.entries[i].row].text
          /\ ( /\ args.op = "show_records"
               /\ args.tail
               /\ Len(report.entries) >= 1 )
             => report.entries[Len(report.entries)].text
                    = DataLines[Len(DataLines)].text
    /\ (pc = "done" /\ args.op = "find" /\ report.mode = "raw")
       => \A j \in 1..Len(report.matches) :
              /\ report.matches[j].row \in 1..Len(DataLines)
              /\ report.matches[j].text
                     = DataLines[report.matches[j].row].text

---------------------------------------------------------------------------
(* The tables compared, and the frames pandas makes of them.               *)

CmpNames == {"a", "b"}
CmpTypes == {"int32", "int64", "string"}
CmpCells == {Null, Val(1), Val(2)}

\* the schemas of the compared tables: every one-column schema, and one of
\* a numeric and a string column
CmpSchemas ==
    {<<Field(n, ty)>> : n \in CmpNames, ty \in CmpTypes}
    \cup {<<Field("a", "int64"), Field("b", "string")>>}

\* one-column tables of up to MaxCmpRows rows, wider ones a row shorter
CmpTables ==
    UNION {{[schema |-> sch, rows |-> r] :
               r \in SeqsUpTo([1..Len(sch) -> CmpCells],
                              MaxCmpRows + 1 - Len(sch))}
           : sch \in CmpSchemas}

HasNull(rows, i) == \E r \in 1..Len(rows) : rows[r][i] = Null

\* table.to_pandas(): a string column becomes object, an integer column
\* keeps its type unless it holds a null, which makes it float64 (NaN)
ToPandas(t) ==
    [columns |-> schema_names(t),
     dtypes |-> [i \in 1..num_columns(t) |->
                    IF t.schema[i].type = "string" THEN "object"
                    ELSE IF HasNull(t.rows, i) THEN "float64"
                    ELSE t.schema[i].type],
     rows |-> t.rows]

\* pd.read_csv with its inferred types: int64, float64 with a NaN, object
\* for a column without rows
FrameOfCsv(ls) ==
    LET f == ReadCsv(ls)
    IN  [columns |-> f.columns,
         dtypes |-> [i \in 1..Len(f.columns) |->
                        IF f.rows = <<>> THEN "object"
                        ELSE IF HasNull(f.rows, i) THEN "float64"
                        ELSE "int64"],
         rows |-> f.rows]

\* pd.api.types.is_numeric_dtype
is_numeric_dtype(dtype) == dtype \in {"int32", "int64", "float64"}

Column(df, i) == [r \in 1..Len(df.rows) |-> df.rows[r][i]]

\* Series.equals / DataFrame.equals per column: the same dtype and the same
\* values, nulls in the same places counting as equal
SeriesEquals(df1, df2, i) ==
    /\ df1.dtypes[i] = df2.dtypes[i]
    /\ Column(df1, i) = Column(df2, i)

\* DataFrame.equals: the same axes, then the same columns
FrameEquals(df1, df2) ==
    /\ df1.columns = df2.columns
    /\ Len(df1.rows) = Len(df2.rows)
    /\ \A i \in 1..Len(df1.columns) : SeriesEquals(df1, df2, i)

Abs(x) == IF x < 0 THEN 0 - x ELSE x

\* a slip: the relative tolerance scales with |a|
IsClose_RelativeToA(a, b, rtol, atol) ==
    IF a = Null \/ b = Null THEN a = b
    ELSE Abs(a[1] - b[1]) * rtol.den * atol.den
            <= atol.num * rtol.den + rtol.num * atol.den * Abs(a[1])

\* np.isclose(a, b, rtol, atol, equal_nan=True) on two cells; rtol and atol
\* are fractions num/den: |a - b| <= atol + rtol * |b|
IsClose(a, b, rtol, atol) ==
    IF a = Null \/ b = Null THEN a = b
    ELSE Abs(a[1] - b[1]) * rtol.den * atol.den
            <= atol.num * rtol.den + rtol.num * atol.den * Abs(b[1])

\* np.allclose over a column
AllClose(df1, df2, i, rtol, atol) ==
    \A r \in 1..Len(df1.rows) :
        IsClose(df1.rows[r][i], df2.rows[r][i], rtol, atol)

\* (s1 != s2).sum(): the positions whose values differ; a NaN or None
\* differs from everything, itself included, and values of different kinds
\* differ
NotEqualCount(df1, df2, i) ==
    Cardinality({r \in 1..Len(df1.rows) :
        \/ df1.rows[r][i] = Null
        \/ df2.rows[r][i] = Null
        \/ df1.rows[r][i] # df2.rows[r][i]
        \/ is_numeric_dtype(df1.dtypes[i]) # is_numeric_dtype(df2.dtypes[i])})

\* whether the loop of dataframe_equal_fuzzy records a difference for the
\* column
ColumnDiffers(df1, df2, i, rtol, atol) ==
    IF is_numeric_dtype(df1.dtypes[i]) /\ is_numeric_dtype(df2.dtypes[i])
    THEN ~AllClose(df1, df2, i, rtol, atol)
    ELSE ~SeriesEquals(df1, df2, i)

\* the differences dict, in column order
RECURSIVE Differences(_, _, _, _, _)
Differences(df1, df2, i, rtol, atol) ==
    IF i > Len(df1.columns) THEN <<>>
    ELSE (IF ColumnDiffers(df1, df2, i, rtol, atol)
          THEN <<[col |-> df1.columns[i],
                  count |-> NotEqualCount(df1, df2, i)]>>
          ELSE <<>>)
         \o Differences(df1, df2, i + 1, rtol, atol)

\* dataframe_equal_fuzzy; called for frames of equal shape
dataframe_equal_fuzzy(df1, df2, rtol, atol) ==
    IF df1.columns # df2.columns
    THEN [result |-> FALSE, names_differ |-> TRUE, differences |-> <<>>]
    ELSE LET d == Differences(df1, df2, 1, rtol, atol)
         IN  [result |-> d = <<>>, names_differ |-> FALSE, differences |-> d]

\* the per-field mismatches schemas_equal prints
RECURSIVE FieldMismatches(_, _, _)
FieldMismatches(schema1, schema2, idx) ==
    IF idx > Len(schema1) THEN <<>>
    ELSE (IF schema1[idx].name # schema2[idx].name
          THEN <<[idx |-> idx, what |-> "name"]>> ELSE <<>>)
         \o (IF schema1[idx].type # schema2[idx].type
             THEN <<[idx |-> idx, what |-> "type"]>> ELSE <<>>)
         \o FieldMismatches(schema1, schema2, idx + 1)

schemas_equal(schema1, schema2) ==
    IF Len(schema1) # Len(schema2)
    THEN [match |-> FALSE, mismatches |-> <<>>]
    ELSE LET mm == FieldMismatches(schema1, schema2, 1)
         IN  [match |-> mm = <<>>, mismatches |-> mm]

---------------------------------------------------------------------------
(* compare_parquet_files (parquet_analyser.py 254-300) and                 *)
(* compare_csv_files (csv_analyser.py 165-212).                            *)

Frac(n, d) == [num |-> n, den |-> d]

\* the tolerances tried: none, and ones that reach the next cell value
Rtols == {Frac(0, 1), Frac(1, 2)}
Atols == {Frac(0, 1), Frac(1, 1)}

InitCompare ==
    /\ table \in CmpTables
    /\ table2 \in CmpTables
    /\ lines = CsvText(table)
    /\ lines2 = CsvText(table2)
    /\ pc = "main"
    /\ args = NoArgs
    /\ report = NoReport
    /\ prev = NoPrev
    /\ CsvScanIdle
    /\ ParquetScanIdle

Unchecked == [checked |-> FALSE, match |-> FALSE, mismatches |-> <<>>]
NoData == [checked |-> FALSE, match |-> FALSE, differences |-> <<>>]

Verdict(result) == IF result THEN "IDENTICAL" ELSE "NOT identical"

CompareReport(tool, same_shape, schema, data, verdict) ==
    [kind |-> "compare", tool |-> tool, same_shape |-> same_shape,
     schema |-> schema, data |-> data, verdict |-> verdict]

compare_parquet_files(t1, t2, a) ==
    LET same_shape == /\ num_columns(t1) = num_columns(t2)
                      /\ num_rows(t1) = num_rows(t2)
        \* same_schema is bound only when check_schema is set
        sch == schemas_equal(t1.schema, t2.schema)
        schema == IF a.check_schema
                  THEN [checked |-> TRUE, match |-> sch.match,
                        mismatches |-> sch.mismatches]
                  ELSE Unchecked
    IN  IF ~same_shape
        THEN CompareReport("parquet", FALSE, schema, NoData, Verdict(FALSE))
        ELSE IF a.check_data
        THEN IF a.fuzzy_data
             THEN LET fz == dataframe_equal_fuzzy(ToPandas(t1), ToPandas(t2),
                                                  a.rtol, a.atol)
                  IN  CompareReport("parquet", TRUE, schema,
                          [checked |-> TRUE, match |-> fz.result,
                           differences |-> fz.differences],
                          Verdict(fz.result))
             ELSE LET eq == FrameEquals(ToPandas(t1), ToPandas(t2))
                  IN  CompareReport("parquet", TRUE, schema,
                          [checked |-> TRUE, match |-> eq,
                           differences |-> <<>>],
                          Verdict(eq))
        ELSE IF ~a.check_schema
        THEN \* "result = same_schema and same_shape" reads an unbound name
             CompareReport("parquet", TRUE, schema, NoData,
                           "UnboundLocalError")
        ELSE CompareReport("parquet", TRUE, schema, NoData,
                           Verdict(sch.match /\ same_shape))

compare_csv_files(ls1, ls2, a) ==
    LET df1 == FrameOfCsv(ls1)
        df2 == FrameOfCsv(ls2)
        same_shape == /\ Len(df1.rows) = Len(df2.rows)
                      /\ Len(df1.columns) = Len(df2.columns)
        same_header == IF a.check_schema THEN df1.columns = df2.columns
                       ELSE TRUE
        schema == [checked |-> a.check_schema, match |-> same_header,
                   mismatches |-> <<>>]
    IN  IF ~same_shape
        THEN CompareReport("csv", FALSE, schema, NoData, Verdict(FALSE))
        ELSE IF a.check_data
        THEN LET eq == FrameEquals(df1, df2)
             IN  CompareReport("csv", TRUE, schema,
                     [checked |-> TRUE, match |-> eq, differences |-> <<>>],
                     Verdict(eq))
        ELSE CompareReport("csv", TRUE, schema, NoData,
                           Verdict(same_header /\ same_shape))

\* the tolerances are read by the fuzzy data check alone
CompareArgs(tool) ==
    {a \in [op : {"compare"}, tool : {tool}, check_schema : BOOLEAN,
            check_data : BOOLEAN, fuzzy_data : BOOLEAN,
            rtol : Rtols, atol : Atols] :
        (~a.check_data \/ ~a.fuzzy_data)
            => (a.rtol = Frac(0, 1) /\ a.atol = Frac(0, 1))}

CompareParquet ==
    /\ pc = "main"
    /\ \E a \in CompareArgs("parquet") :
          /\ args' = a
          /\ report' = compare_parquet_files(table, table2, a)
    /\ pc' = "done"
    /\ UNCHANGED <<files, csvScanVars, pqScanVars, prev>>

\* compare_csv_files has no fuzzy mode: check_header is check_schema here
CompareCsv ==
    /\ pc = "main"
    /\ \E a \in CompareArgs("csv") :
          /\ ~a.fuzzy_data
          /\ args' = a
          /\ report' = compare_csv_files(lines, lines2, a)
    /\ pc' = "done"
    /\ UNCHANGED <<files, csvScanVars, pqScanVars, prev>>

NextCompare == CompareParquet \/ CompareCsv

SpecCompare == InitCompare /\ [][NextCompare]_vars

---------------------------------------------------------------------------
(* Claims about the comparator.                                            *)

Compared(tool) ==
    /\ pc = "done"
    /\ report # NoReport
    /\ report.kind = "compare"
    /\ report.tool = tool

\* what the two sources are, read off the files rather than off the report
SameShape ==
    /\ num_columns(table) = num_columns(table2)
    /\ num_rows(table) = num_rows(table2)

SameNames == schema_names(table) = schema_names(table2)

DeclaredNumeric(t, i) == t.schema[i].type \in {"int32", "int64"}

WithinTolerance(a, b, rtol, atol) ==
    IF a = Null /\ b = Null THEN TRUE
    ELSE IF a = Null \/ b = Null THEN FALSE
    ELSE Abs(a[1] - b[1]) * rtol.den * atol.den
            <= atol.num * rtol.den + rtol.num * atol.den * Abs(b[1])

ColumnExactlyEqual(i) ==
    /\ DeclaredNumeric(table, i) = DeclaredNumeric(table2, i)
    /\ \A r \in 1..num_rows(table) : table.rows[r][i] = table2.rows[r][i]

ColumnDataOk(i) ==
    IF DeclaredNumeric(table, i) /\ DeclaredNumeric(table2, i)
    THEN \A r \in 1..num_rows(table) :
            WithinTolerance(table.rows[r][i], table2.rows[r][i],
                            args.rtol, args.atol)
    ELSE ColumnExactlyEqual(i)

AllColumnsOk == \A i \in 1..num_columns(table) : ColumnDataOk(i)

EveryCellEqual ==
    \A i \in 1..num_columns(table) : \A r \in 1..num_rows(table) :
        table.rows[r][i] = table2.rows[r][i]

\* C1: compare reports IDENTICAL only if the schema check passed (when
\* schema checking is enabled), the shapes are equal and the data check
\* passed; with both checks on, sources whose schemas differ in a field
\* name or declared type are never reported IDENTICAL.
C1_IdenticalOnlyIfAllChecksPass ==
    /\ (Compared("parquet") /\ report.verdict = "IDENTICAL")
          => /\ SameShape
             /\ args.check_schema => table.schema = table2.schema
             /\ args.check_data => (report.data.checked /\ report.data.match)
    /\ (Compared("csv") /\ report.verdict = "IDENTICAL")
          => /\ Len(ReadCsv(lines).rows) = Len(ReadCsv(lines2).rows)
             /\ Len(ReadCsv(lines).columns) = Len(ReadCsv(lines2).columns)
             /\ args.check_schema
                  => ReadCsv(lines).columns = ReadCsv(lines2).columns
             /\ args.check_data => (report.data.checked /\ report.data.match)

\* C9 as stated: with fuzzy comparison on and equal shapes, data_match is
\* true exactly when every column numeric on both sides is within tolerance
\* cell by cell and every other column is exactly equal; with fuzzy off,
\* data_match requires every cell to be exactly equal.
C9_FuzzyDataMatch ==
    (Compared("parquet") /\ report.data.checked)
        => IF args.fuzzy_data
           THEN report.data.match <=> AllColumnsOk
           ELSE report.data.match => EveryCellEqual

\* C9 amended: the same, for sources whose column names agree in order; when
\* the names differ, data_match is false whatever the cells hold.
C9_FuzzyDataMatchSameNames ==
    (Compared("parquet") /\ report.data.checked)
        => IF args.fuzzy_data
           THEN report.data.match <=> (SameNames /\ AllColumnsOk)
           ELSE report.data.match => (SameNames /\ EveryCellEqual)

\* a numeric cell off by less than the tolerance, accepted by the fuzzy
\* check, where the exact check of the same pair refuses
C9_Witness ==
    /\ Compared("parquet")
    /\ report.data.checked
    /\ args.fuzzy_data
    /\ report.data.match
    /\ SameNames
    /\ \E i \in 1..num_columns(table) : \E r \in 1..num_rows(table) :
          /\ DeclaredNumeric(table, i)
          /\ DeclaredNumeric(table2, i)
          /\ table.rows[r][i] # Null
          /\ table2.rows[r][i] # Null
          /\ table.rows[r][i] # table2.rows[r][i]
    /\ ~compare_parquet_files(table, table2,
            [args EXCEPT !.fuzzy_data = FALSE]).data.match

---------------------------------------------------------------------------
(* Long typed scans: the progress prints of analyse_parquet and of the     *)
(* typed find over sources of hundreds of rows.                            *)

\* row counts on both sides of every multiple of 100
ScanRowCounts == {n \in 1..MaxScanRows : (n + 1) % 100 <= 2}

\* one integer column, every other cell null
ScanTable(n) ==
    [schema |-> <<Field(ColumnNames[1], "int64")>>,
     rows |-> [r \in 1..n |-> <<IF r % 2 = 0 THEN Null ELSE Val(1)>>]]

InitProgress ==
    /\ table \in {ScanTable(n) : n \in ScanRowCounts}
    /\ pc \in {"main", "analyse_parquet"}
    /\ args = IF pc = "main" THEN NoArgs
              ELSE [op |-> "analyse_parquet",
                    print_malformed_rows |-> FALSE,
                    print_malformed_data |-> FALSE,
                    check_duplicates |-> Null]
    /\ ParquetScanIdle
    /\ lines = <<>>
    /\ table2 = NoTable
    /\ lines2 = <<>>
    /\ CsvScanIdle
    /\ report = NoReport
    /\ prev = NoPrev

NextProgress ==
    \/ AnalyseParquetStep
    \/ AnalyseParquetReport
    \/ MainFindParquet
    \/ FindParquetStep
    \/ FindParquetEnd

\* a for loop over a finite range: every iteration is followed by the next
SpecProgress == InitProgress /\ [][NextProgress]_vars /\ WF_vars(NextProgress)

---------------------------------------------------------------------------
(* Claim about progress reports.                                           *)

CeilDiv(a, b) == (a + b - 1) \div b

TypedScan ==
    \/ pc \in {"analyse_parquet", "find_parquet"}
    \/ /\ pc = "done"
       /\ \/ report.kind = "analyse_parquet"
          \/ report.kind = "find" /\ report.mode = "structured"

ScanFinished == TypedScan /\ pc = "done"

\* rows processed since the last report (or since the start)
SinceLastReport ==
    row_idx - (IF progress = <<>> THEN 0 ELSE progress[Len(progress)])

ProgressSafe ==
    (TypedScan /\ num_rows(table) >= 1)
        => LET n == num_rows(table)
               g == CeilDiv(n, 100)
           IN  /\ \A i \in 1..Len(progress) :
                     /\ progress[i] \in 1..row_idx
                     /\ progress[i] - (IF i = 1 THEN 0 ELSE progress[i - 1])
                            \in 1..g
               /\ SinceLastReport \in 0..g
               /\ pc = "done" => /\ row_idx = n
                                 /\ progress # <<>>
                                 /\ progress[Len(progress)] = n

\* C11: in a typed scan of row_count >= 1 rows a progress report follows
\* the final row, at most ceil(row_count/100) rows are processed between
\* two consecutive reports and before the first, every report carries the
\* count of rows processed so far, the counts increase strictly, and the
\* scan goes on to the last row after every report.
C11_ProgressReports ==
    /\ []ProgressSafe
    /\ [][progress' # progress
            => progress' = Append(progress, row_idx')]_vars
    /\ (pc \in {"analyse_parquet", "find_parquet"}) ~> ScanFinished

\* a finished scan whose final report is not on a multiple of the interval
C11_Witness ==
    /\ ScanFinished
    /\ progress_interval(num_rows(table)) > 1
    /\ num_rows(table) % progress_interval(num_rows(table)) # 0
    /\ Len(progress) > 1
    /\ progress[Len(progress)] = num_rows(table)

\* the positions of column i whose two values are unequal under the rule
\* that decides the column: the tolerance rule for a column numeric on both
\* sides, exact equality (of type and value) otherwise
UnequalPositions(i) ==
    {r \in 1..num_rows(table) :
        IF DeclaredNumeric(table, i) /\ DeclaredNumeric(table2, i)
        THEN ~WithinTolerance(table.rows[r][i], table2.rows[r][i],
                              args.rtol, args.atol)
        ELSE \/ table.schema[i].type # table2.schema[i].type
             \/ table.rows[r][i] # table2.rows[r][i]}

FuzzyMismatch ==
    /\ Compared("parquet")
    /\ report.data.checked
    /\ args.fuzzy_data
    /\ ~report.data.match

\* C12: when the fuzzy comparison reports a data mismatch, the count it
\* records for a column is the number of row positions whose two values are
\* unequal under the rule that decided the mismatch (two nulls counting as
\* equal), and only mismatching columns get an entry.
C12_DifferingRowCounts ==
    FuzzyMismatch
        => \A k \in 1..Len(report.data.differences) :
              LET d == report.data.differences[k]
              IN  \E i \in 1..num_columns(table) :
                     /\ schema_names(table)[i] = d.col
                     /\ UnequalPositions(i) # {}
                     /\ d.count = Cardinality(UnequalPositions(i))

---------------------------------------------------------------------------
(* Claim about the null fractions of analyse_parquet.                      *)

NullRows(i) == {r \in 1..num_rows(table) : table.rows[r][i] = Null}

\* C13: for every typed source of row_count >= 0 rows analyse_parquet
\* completes and reports, for each column, the null fraction (rows with a
\* null in the column) / row_count, which lies in [0, 1]; a source with
\* columns and no rows is analysed to completion.
C13_NullFractions ==
    (args.op = "analyse_parquet" /\ pc # "analyse_parquet")
        => /\ pc = "done"
           /\ report.kind = "analyse_parquet"
           /\ \A i \in 1..num_columns(table) :
                 /\ report.null_fraction[i].nulls = Cardinality(NullRows(i))
                 /\ report.null_fraction[i].rows = num_rows(table)
                 /\ report.null_fraction[i].nulls
                        \in 0..report.null_fraction[i].rows

---------------------------------------------------------------------------
(* Claim about the flag settings of the comparator.                        *)

\* C14: compare_parquet_files returns a boolean verdict for every setting
\* of check_schema and check_data; with check_data off and equal shapes the
\* verdict is schema_match and shape_match, a schema check that was not
\* asked for counting as passed, so two tables of equal shape compared with
\* both checks off are IDENTICAL.
C14_VerdictForEveryFlagSetting ==
    Compared("parquet")
        => /\ report.verdict \in {"IDENTICAL", "NOT identical"}
           /\ (~args.check_data /\ SameShape)
                => (report.verdict = "IDENTICAL"
                      <=> (args.check_schema
                              => table.schema = table2.schema))

====
